---- MODULE Spec2Model ----
(***************************************************************************)
(* A model of skyline::jit::Jit32 (app/src/main/cpp/skyline/jit/jit32.cpp):*)
(* the bridge between the A32 translation engine and the guest process.    *)
(*                                                                         *)
(* Numbers.  TLC's integers are 32 bits wide, so a u32 or a u64 cannot be  *)
(* one TLC integer.  A value of an unsigned type of sz bytes is a numeral  *)
(* in base 65536, least significant limb first: one limb below 256 for u8, *)
(* one limb for u16, two for u32, four for u64.  Guest memory is a         *)
(* function from byte offsets to bytes; the conversion between a value and *)
(* its bytes in memory (memcpy, or an access through a T pointer) is       *)
(* computed limb by limb.                                                  *)
(***************************************************************************)
EXTENDS Integers, Sequences, FiniteSets, TLC

\* ------------------------------------------------------------------------
\* Bounds of the model
\* ------------------------------------------------------------------------

\* First byte offset of the guest memory window that the model tracks.
WinBase == 4096
\* Number of tracked bytes of the window, from WinBase on.
MemSize == 9
\* Number of memory writes in one behaviour.
MaxWrites == 1
\* Number of extended registers the model tracks.
ExtRegCount == 2
\* Number of register-context operations in one behaviour.
MaxCtxOps == 3
\* Number of syscall dispatches in one behaviour.
MaxDispatches == 2
\* Number of calls of Run in one behaviour.
MaxRuns == 2
\* Number of halt requests of other execution contexts during one Run cycle.
MaxHalts == 2
\* Number of HaltExecution / ClearHalt calls of the owner in one behaviour.
MaxHaltOps == 5

\* ------------------------------------------------------------------------
\* Unsigned values
\* ------------------------------------------------------------------------

LimbRadix == 65536
ByteRadix == 256

\* Number of limbs of a value of sz bytes.
Limbs(sz) == IF sz = 1 THEN 1 ELSE sz \div 2

\* The values of the unsigned type of sz bytes.
IsValue(v, sz) ==
    /\ DOMAIN v = 1..Limbs(sz)
    /\ \A j \in DOMAIN v : v[j] \in 0..(IF sz = 1 THEN ByteRadix - 1 ELSE LimbRadix - 1)

Zero(sz) == [j \in 1..Limbs(sz) |-> 0]

\* Byte k (0 is the least significant) of value v.
ByteOf(v, k) == (v[(k \div 2) + 1] \div (IF k % 2 = 0 THEN 1 ELSE ByteRadix)) % ByteRadix

\* The object representation of a value of sz bytes on the little-endian
\* hosts the emulator is built for (arm64-v8a, x86_64): std::memcpy from &value.
BytesBigEndian(v, sz) == [k \in 1..sz |-> ByteOf(v, sz - k)]
ToBytes(v, sz) == [k \in 1..sz |-> ByteOf(v, k - 1)]

\* The value whose object representation is the byte sequence b: std::memcpy
\* into &value.
FromBytes(b, sz) ==
    IF sz = 1 THEN <<b[1]>>
    ELSE [j \in 1..(sz \div 2) |-> b[2 * j - 1] + ByteRadix * b[2 * j]]

\* static_cast<u64>(u32): zero extension.
SignExtend64(v) ==
    IF v[2] >= LimbRadix \div 2
    THEN <<v[1], v[2], LimbRadix - 1, LimbRadix - 1>>
    ELSE <<v[1], v[2], 0, 0>>
ZeroExtend64(v) == <<v[1], v[2], 0, 0>>

\* static_cast<u32>(u64): the value modulo 2^32.
Truncate32(x) == <<x[1], x[2]>>

\* Unsigned addition modulo 2^(8 * sz) of two values of the same type.
RECURSIVE CarryOut(_, _, _)
CarryOut(a, b, j) ==
    IF j = 0 THEN 0 ELSE (a[j] + b[j] + CarryOut(a, b, j - 1)) \div LimbRadix

Add(a, b) == [j \in DOMAIN a |-> (a[j] + b[j] + CarryOut(a, b, j - 1)) % LimbRadix]

\* u32 bit operations of the address computation.
RECURSIVE BitAnd(_, _)
BitAnd(a, b) ==
    IF a = 0 \/ b = 0 THEN 0
    ELSE (a % 2) * (b % 2) + 2 * BitAnd(a \div 2, b \div 2)

ShiftLeft(a, n) == a * (2 ^ n)
ShiftRight(a, n) == a \div (2 ^ n)

\* std::bit_width(n): the number of bits needed to represent n.
RECURSIVE BitWidth(_)
BitWidth(n) == IF n = 0 THEN 0 ELSE 1 + BitWidth(n \div 2)

\* ------------------------------------------------------------------------
\* State
\* ------------------------------------------------------------------------

VARIABLES
    mem,       \* state.process->memory.base: window offset -> byte
    memOp,     \* the last memory access: [op, sz, vaddr, value, path, after]
    writes,    \* number of memory writes so far
    regs,      \* jit.Regs(): the 16 general-purpose registers
    extRegs,   \* jit.ExtRegs(): the extended registers
    cpsr,      \* jit.Cpsr()
    fpscr,     \* jit.Fpscr()
    context,   \* the caller's ThreadContext32 object
    ctxOp,     \* the last register-context operation, its argument and the live state before it
    ctxOps,    \* number of register-context operations so far
    svcOp,     \* the last syscall dispatch: what the handler saw and returned
    fatal,     \* the fatal condition raised, if any
    dispatches, \* number of syscall dispatches so far
    lastCall,  \* the latest engine notification or owner stub call, by name
    haltMask,  \* the engine's halt_reason: the set of bits that are set
    haltLog,   \* the latest HaltExecution / ClearHalt calls, with the mask before each
    haltOps,   \* number of HaltExecution / ClearHalt calls of the owner so far
    runPc,     \* where the owner's thread is inside Run
    haltReason, \* Run's local haltReason
    lastSwi,   \* Jit32::lastSwi
    runs,      \* number of calls of Run so far
    runSvc,    \* the syscall numbers CallSVC received during the current Run
    runDispatch, \* the syscall numbers the current Run handed to SvcHandler
    svcSince   \* the syscall numbers CallSVC received since Run's latest dispatch

memVars == <<mem, memOp, writes>>
liveVars == <<regs, extRegs, cpsr, fpscr>>
ctxVars == <<context, ctxOp, ctxOps>>
svcVars == <<svcOp, fatal, dispatches, lastCall>>
haltVars == <<haltMask, haltLog, haltOps>>
runVars == <<runPc, haltReason, lastSwi, runs, runSvc, runDispatch, svcSince>>
vars == <<memVars, liveVars, ctxVars, svcVars, haltVars, runVars>>

Window == WinBase..(WinBase + MemSize - 1)
Sizes == {1, 2, 4, 8}

\* An access of sz bytes at vaddr lies inside the tracked window.
InWindow(vaddr, sz) == \A k \in 0..(sz - 1) : vaddr + k \in Window

NoAccess ==
    [op |-> "none", sz |-> 0, vaddr |-> 0, value |-> <<>>, path |-> "none",
     after |-> <<>>]

\* The window's contents when the accesses start: every byte differs from its
\* neighbours.
InitialMemory(seed) == [o \in Window |-> ((o - WinBase) * 37 + seed) % ByteRadix]

MemAtStart(m) ==
    /\ mem = m
    /\ memOp = NoAccess
    /\ writes = 0

NoFatal == [kind |-> "none", swi |-> 0]

NoDispatch ==
    [swi |-> 0, outcome |-> "none", handler |-> "none", before |-> <<>>,
     seen |-> <<>>, result |-> <<>>]

SvcAtStart ==
    /\ svcOp = NoDispatch
    /\ fatal = NoFatal
    /\ dispatches = 0
    /\ lastCall = "none"

HaltAtStart ==
    /\ haltMask = {}
    /\ haltLog = <<>>
    /\ haltOps = 0

RunAtStart ==
    /\ runPc = "idle"
    /\ haltReason = {}
    /\ lastSwi = 0
    /\ runs = 0
    /\ runSvc = <<>>
    /\ runDispatch = <<>>
    /\ svcSince = {}

\* ------------------------------------------------------------------------
\* Register Context Model (jit32.cpp 47-59, 86-108)
\* ------------------------------------------------------------------------

\* Number of general-purpose registers: jit.Regs() is r0..r15.
NumRegs == 16
RegIndex == 0..(NumRegs - 1)
ExtIndex == 0..(ExtRegCount - 1)

\* The live register state as the four fields of a ThreadContext32.
Live == [gpr |-> regs, fpr |-> extRegs, cpsr |-> cpsr, fpscr |-> fpscr]

\* A ThreadContext32 with every field zero.
ZeroContext ==
    [gpr |-> [i \in RegIndex |-> Zero(4)], fpr |-> [i \in ExtIndex |-> Zero(4)],
     cpsr |-> Zero(4), fpscr |-> Zero(4)]

\* Snapshots a caller hands to RestoreContext: every register differs from
\* the others, and the two snapshots differ in every field.
Snapshot(n) ==
    [gpr |-> [i \in RegIndex |-> <<256 * n + i, 4096 * n + i>>],
     fpr |-> [i \in ExtIndex |-> <<512 * n + i, 16384 + n + i>>],
     cpsr |-> <<16 * n, 24576 + n>>,
     fpscr |-> <<n, 768 + n>>]

Snapshots == {Snapshot(1), Snapshot(2)}

LiveAtStart(c) ==
    /\ regs = c.gpr
    /\ extRegs = c.fpr
    /\ cpsr = c.cpsr
    /\ fpscr = c.fpscr

NoCtxOp ==
    [op |-> "none", reg |-> 0, value |-> <<>>, before |-> <<>>, saved |-> <<>>,
     restored |-> <<>>]

CtxAtStart ==
    /\ context = ZeroContext
    /\ ctxOp = NoCtxOp
    /\ ctxOps = 0

\* Jit32::SaveContext(context): the snapshot written.
SavedContext(r, x, c, f) == [gpr |-> r, fpr |-> x, cpsr |-> c, fpscr |-> f]

\* jit.SetCpsr(value), jit.SetFpscr(value): the word the engine's Cpsr() and
\* Fpscr() read afterwards.
JitSetCpsr(value) == value
JitSetFpscr(value) == value

\* Jit32::RestoreContext(context): the live state written.
RestoredSwapsStatus(c) == [gpr |-> c.gpr, fpr |-> c.fpr, cpsr |-> c.fpscr, fpscr |-> c.cpsr]
RestoredKeepsExtRegs(c) == [gpr |-> c.gpr, fpr |-> extRegs, cpsr |-> c.cpsr, fpscr |-> c.fpscr]
RestoredLive(c) ==
    [gpr |-> c.gpr, fpr |-> c.fpr, cpsr |-> JitSetCpsr(c.cpsr),
     fpscr |-> JitSetFpscr(c.fpscr)]

SaveContext ==
    /\ ctxOps < MaxCtxOps
    /\ context' = SavedContext(regs, extRegs, cpsr, fpscr)
    /\ ctxOp' = [op |-> "save", reg |-> 0, value |-> <<>>, before |-> Live,
                 saved |-> <<>>,
                 restored |-> IF ctxOp.op = "restore"
                              THEN <<ctxOp.value, ctxOp.before>> ELSE <<>>]
    /\ ctxOps' = ctxOps + 1
    /\ UNCHANGED <<liveVars, memVars, svcVars, haltVars, runVars>>

\* RestoreContext(c) for a snapshot c of the caller: the object the last
\* SaveContext wrote, or another snapshot.
RestoreContext ==
    \E c \in Snapshots \cup {context} :
        /\ ctxOps < MaxCtxOps
        /\ regs' = RestoredLive(c).gpr
        /\ extRegs' = RestoredLive(c).fpr
        /\ cpsr' = RestoredLive(c).cpsr
        /\ fpscr' = RestoredLive(c).fpscr
        /\ ctxOp' = [op |-> "restore", reg |-> 0, value |-> c, before |-> Live,
                     saved |-> IF ctxOp.op = "save" /\ c = context
                               THEN <<ctxOp.before>> ELSE <<>>,
                     restored |-> <<>>]
        /\ ctxOps' = ctxOps + 1
        /\ UNCHANGED <<context, memVars, svcVars, haltVars, runVars>>

\* Values the owner and the engine write into single registers.
RegValues == {<<48879, 57005>>}
PointerValues == {<<48879, 57005>>, <<4096, 2048>>}

\* jit.Regs()[reg] = value
WriteRegister(r, reg, value) == [r EXCEPT ![reg] = value]

\* Jit32::GetRegister(reg), GetPC(), GetSP()
GetRegister(reg) == regs[reg]
GetPCReadsLR == regs[14]
GetPC == regs[15]
GetSP == regs[13]

SetRegister ==
    \E reg \in RegIndex, value \in RegValues :
        /\ ctxOps < MaxCtxOps
        /\ regs' = WriteRegister(regs, reg, value)
        /\ ctxOp' = [op |-> "SetRegister", reg |-> reg, value |-> value, before |-> Live,
                     saved |-> <<>>, restored |-> <<>>]
        /\ ctxOps' = ctxOps + 1
        /\ UNCHANGED <<extRegs, cpsr, fpscr, context, memVars, svcVars, haltVars, runVars>>

SetPC ==
    \E pc \in PointerValues :
        /\ ctxOps < MaxCtxOps
        /\ regs' = WriteRegister(regs, 15, pc)
        /\ ctxOp' = [op |-> "SetPC", reg |-> 15, value |-> pc, before |-> Live,
                     saved |-> <<>>, restored |-> <<>>]
        /\ ctxOps' = ctxOps + 1
        /\ UNCHANGED <<extRegs, cpsr, fpscr, context, memVars, svcVars, haltVars, runVars>>

SetSP ==
    \E sp \in PointerValues :
        /\ ctxOps < MaxCtxOps
        /\ regs' = WriteRegister(regs, 13, sp)
        /\ ctxOp' = [op |-> "SetSP", reg |-> 13, value |-> sp, before |-> Live,
                     saved |-> <<>>, restored |-> <<>>]
        /\ ctxOps' = ctxOps + 1
        /\ UNCHANGED <<extRegs, cpsr, fpscr, context, memVars, svcVars, haltVars, runVars>>

InitCtx ==
    /\ MemAtStart(InitialMemory(17))
    /\ \E c \in Snapshots \cup {ZeroContext} : LiveAtStart(c)
    /\ CtxAtStart
    /\ SvcAtStart
    /\ HaltAtStart
    /\ RunAtStart

NextCtx ==
    \/ SaveContext
    \/ RestoreContext
    \/ SetRegister
    \/ SetPC
    \/ SetSP

SpecCtx == InitCtx /\ [][NextCtx]_vars

\* C9: for every live register state, SaveContext(c) immediately followed by
\* RestoreContext(c) leaves the general registers, the extended registers,
\* CPSR and FPSCR of the live state as they were before the save.
C9_SaveRestoreRoundTrip ==
    (ctxOp.op = "restore" /\ ctxOp.saved # <<>>) =>
        /\ regs = ctxOp.saved[1].gpr
        /\ extRegs = ctxOp.saved[1].fpr
        /\ cpsr = ctxOp.saved[1].cpsr
        /\ fpscr = ctxOp.saved[1].fpscr

\* A save and restore of a live state that a register write had changed, with
\* CPSR and FPSCR different from each other, while the context object held
\* other values before the save.
C9_Witness ==
    /\ ctxOp.op = "restore"
    /\ ctxOp.saved # <<>>
    /\ ctxOps = 3
    /\ regs[13] = <<4096, 2048>>
    /\ regs[0] # regs[13]
    /\ cpsr # fpscr
    /\ cpsr # Zero(4)
    /\ Live = ctxOp.saved[1]

\* C16: RestoreContext(c) overwrites the live register state completely: for
\* every prior live state and every snapshot c the live state after it is c,
\* and a SaveContext(out) that follows it yields out equal to c in the general
\* registers, the extended registers, CPSR and FPSCR; neither operation
\* modifies guest memory, the halt bitmask or the captured syscall number.
C16_RestoreThenSaveYieldsSnapshot ==
    /\ [](ctxOp.op = "restore" => Live = ctxOp.value)
    /\ []((ctxOp.op = "save" /\ ctxOp.restored # <<>>) =>
            /\ context.gpr = ctxOp.restored[1].gpr
            /\ context.fpr = ctxOp.restored[1].fpr
            /\ context.cpsr = ctxOp.restored[1].cpsr
            /\ context.fpscr = ctxOp.restored[1].fpscr)
    /\ [][ctxOp'.op \in {"save", "restore"} =>
            /\ mem' = mem
            /\ haltMask' = haltMask
            /\ lastSwi' = lastSwi]_vars

\* RestoreContext(Snapshot(2)) over a live state that was Snapshot(1) with a
\* new stack pointer, then SaveContext: the object holds Snapshot(2).
C16_Witness ==
    /\ ctxOp.op = "save"
    /\ ctxOp.restored # <<>>
    /\ ctxOp.restored[1] = Snapshot(2)
    /\ ctxOp.restored[2] = [Snapshot(1) EXCEPT !.gpr[13] = <<4096, 2048>>]
    /\ context = Snapshot(2)
    /\ Live = Snapshot(2)

\* The latest operation wrote one general-purpose register.
WroteRegister == ctxOp.op \in {"SetRegister", "SetPC", "SetSP"}

\* C13: in every reachable state GetPC() is GetRegister(15) and GetSP() is
\* GetRegister(13); SetPC(v) and SetSP(v) have exactly the effect of
\* SetRegister(15, v) and SetRegister(13, v); and SetRegister(i, v) for i in
\* 0..15 makes register i read v and leaves the other fifteen registers, the
\* extended registers, CPSR and FPSCR unchanged.
C13_NamedAccessorsAreIndexed ==
    /\ GetPC = GetRegister(15)
    /\ GetSP = GetRegister(13)
    /\ ctxOp.op = "SetPC" => ctxOp.reg = 15
    /\ ctxOp.op = "SetSP" => ctxOp.reg = 13
    /\ WroteRegister =>
          /\ regs = WriteRegister(ctxOp.before.gpr, ctxOp.reg, ctxOp.value)
          /\ GetRegister(ctxOp.reg) = ctxOp.value
          /\ \A j \in RegIndex \ {ctxOp.reg} : GetRegister(j) = ctxOp.before.gpr[j]
          /\ extRegs = ctxOp.before.fpr
          /\ cpsr = ctxOp.before.cpsr
          /\ fpscr = ctxOp.before.fpscr

\* SetPC(0x08001000) on a restored snapshot: GetPC() reads the new value, r15
\* held another value before, and SP, LR and CPSR are the snapshot's.
C13_Witness ==
    /\ ctxOp.op = "SetPC"
    /\ ctxOp.value = <<4096, 2048>>
    /\ GetPC = <<4096, 2048>>
    /\ GetRegister(15) = <<4096, 2048>>
    /\ ctxOp.before.gpr = Snapshot(2).gpr
    /\ GetSP = Snapshot(2).gpr[13]
    /\ GetRegister(14) = Snapshot(2).gpr[14]
    /\ cpsr = Snapshot(2).cpsr

\* ------------------------------------------------------------------------
\* Syscall Dispatcher (jit32.cpp 61-76, 110-120)
\* ------------------------------------------------------------------------

\* kernel::svc::SvcContext::regs.size(): the number of 64-bit slots of the
\* syscall register window.
SvcRegCount == 16

\* Number of entries of kernel::svc::SvcTable, a fixed table indexed by the
\* syscall number.
SvcTableSize == 128

\* Handlers of the table, each a function over the register window.
\* x0 = x0 + x1
HandlerAdd(ctx) == [ctx EXCEPT ![0] = Add(ctx[0], ctx[1])]
\* x0 = 0 (success), x1 = a 64-bit result above 2^32
HandlerWide(ctx) == [ctx EXCEPT ![0] = Zero(8), ![1] = <<1, 2, 3, 4>>]
\* every slot x = x + 0x0000000100000001
HandlerAll(ctx) == [i \in DOMAIN ctx |-> Add(ctx[i], <<1, 0, 1, 0>>)]

HandlerNames == {"Add", "Wide", "All"}

\* (svc.function)(state, svcContext)
Invoke(function, ctx) ==
    CASE function = "Add" -> HandlerAdd(ctx)
      [] function = "Wide" -> HandlerWide(ctx)
      [] function = "All" -> HandlerAll(ctx)

EmptyDescriptor == [name |-> "", function |-> "null"]

\* kernel::svc::SvcTable: entries 1, 2 and 3 are populated.
SvcTable ==
    [n \in 0..(SvcTableSize - 1) |->
        CASE n = 1 -> [name |-> "Add", function |-> "Add"]
          [] n = 2 -> [name |-> "Wide", function |-> "Wide"]
          [] n = 3 -> [name |-> "All", function |-> "All"]
          [] OTHER -> EmptyDescriptor]

Populated == {n \in DOMAIN SvcTable : SvcTable[n] # EmptyDescriptor}

\* Jit32::MakeSvcContext(): every slot is the guest register widened to u64.
MakeSvcContextSignExtends(jitRegs) ==
    [i \in 0..(SvcRegCount - 1) |-> SignExtend64(jitRegs[i])]
MakeSvcContext(jitRegs) ==
    [i \in 0..(SvcRegCount - 1) |-> ZeroExtend64(jitRegs[i])]

\* Jit32::ApplySvcContext(svcCtx): every guest register is the slot narrowed
\* to u32.
ApplySvcContextNarrow16(jitRegs, svcCtx) ==
    [i \in DOMAIN jitRegs |->
        IF i \in DOMAIN svcCtx THEN <<svcCtx[i][1], 0>> ELSE jitRegs[i]]
ApplySvcContext(jitRegs, svcCtx) ==
    [i \in DOMAIN jitRegs |->
        IF i \in DOMAIN svcCtx THEN Truncate32(svcCtx[i]) ELSE jitRegs[i]]

\* The populated branch of Jit32::SvcHandler: marshal, invoke, marshal back.
Dispatch(swi, function) ==
    LET seen == MakeSvcContext(regs)
        result == Invoke(function, seen)
    IN  /\ regs' = ApplySvcContext(regs, result)
        /\ svcOp' = [swi |-> swi, outcome |-> "handled", handler |-> function,
                     before |-> regs, seen |-> seen, result |-> result]
        /\ fatal' = fatal

\* throw exception("Unimplemented SVC 0x{:X}", swi)
ThrowUnimplemented(swi) ==
    /\ regs' = regs
    /\ svcOp' = [swi |-> swi, outcome |-> "unimplemented", handler |-> "none",
                 before |-> regs, seen |-> <<>>, result |-> <<>>]
    /\ fatal' = [kind |-> "UnimplementedSvc", swi |-> swi]

\* SvcTable[swi] with swi past the end of the table reads whatever follows the
\* table: undefined behaviour.  The descriptor read may test false (the throw),
\* hold a pointer that is no function (a crash), or hold the address of code
\* that runs as a handler.
OutOfRangeLookup(swi) ==
    \/ ThrowUnimplemented(swi)
    \/ /\ regs' = regs
       /\ svcOp' = [swi |-> swi, outcome |-> "undefined", handler |-> "none",
                    before |-> regs, seen |-> <<>>, result |-> <<>>]
       /\ fatal' = [kind |-> "UndefinedCrash", swi |-> swi]
    \/ \E function \in HandlerNames : Dispatch(swi, function)

\* Jit32::SvcHandler(swi)
SvcHandler(swi) ==
    /\ IF swi \in DOMAIN SvcTable
       THEN IF SvcTable[swi].function # "null"
            THEN Dispatch(swi, SvcTable[swi].function)
            ELSE ThrowUnimplemented(swi)
       ELSE OutOfRangeLookup(swi)
    /\ dispatches' = dispatches + 1
    /\ lastCall' = lastCall

\* Syscall numbers the model dispatches: populated entries, unpopulated
\* entries inside the table, the first number past the table, and the largest
\* immediates of an A32 SVC instruction and of a TLC integer.
SwiInputs == {0, 1, 2, 3, 4, SvcTableSize - 1, SvcTableSize, 16777215, 2147483647}

\* The dispatcher called with a syscall number, as Run does with lastSwi.
DispatchSvc ==
    \E swi \in SwiInputs :
        /\ fatal.kind = "none"
        /\ dispatches < MaxDispatches
        /\ SvcHandler(swi)
        /\ UNCHANGED <<extRegs, cpsr, fpscr, ctxVars, memVars, haltVars, runVars>>

\* Guest register files at a dispatch: the scenario r0 = 5, r1 = 7; one whose
\* r0 + r1 carries out of 32 bits and whose registers have bit 31 set; and
\* the two snapshots.
RegFileScenario ==
    [i \in RegIndex |->
        CASE i = 0 -> <<5, 0>> [] i = 1 -> <<7, 0>> [] OTHER -> <<256 + i, 4096 + i>>]
RegFileHigh ==
    [i \in RegIndex |->
        CASE i = 0 -> <<65535, 65535>> [] i = 1 -> <<1, 0>> [] OTHER -> <<i, 32768 + i>>]

RegFiles == {RegFileScenario, RegFileHigh, Snapshot(1).gpr, Snapshot(2).gpr}

InitSvc ==
    /\ MemAtStart(InitialMemory(17))
    /\ \E r \in RegFiles : LiveAtStart([Snapshot(1) EXCEPT !.gpr = r])
    /\ CtxAtStart
    /\ SvcAtStart
    /\ HaltAtStart
    /\ RunAtStart

NextSvc == DispatchSvc

SpecSvc == InitSvc /\ [][NextSvc]_vars

\* C3 (as claimed): for every syscall number with no populated table entry,
\* numbers beyond the table's range included, SvcHandler(swi) ends in the
\* unimplemented-syscall fatal condition identifying swi, invokes no handler
\* and leaves the guest registers unchanged.
C3_UnpopulatedIsUnimplemented ==
    (svcOp.outcome # "none" /\ svcOp.swi \notin Populated) =>
        /\ svcOp.outcome = "unimplemented"
        /\ svcOp.handler = "none"
        /\ fatal = [kind |-> "UnimplementedSvc", swi |-> svcOp.swi]
        /\ regs = svcOp.before

\* C6: a populated syscall whose handler writes only some slots of the
\* register window changes only the corresponding guest registers; with
\* r0 = 5, r1 = 7 and the handler r0 = r0 + r1 the guest r0 reads 12 after
\* the dispatch and r1..r15 hold their values from before it.
C6_OnlyWrittenSlotsChange ==
    svcOp.outcome = "handled" =>
        /\ \A i \in RegIndex :
              svcOp.result[i] = svcOp.seen[i] => regs[i] = svcOp.before[i]
        /\ (svcOp.handler = "Add" /\ svcOp.before[0] = <<5, 0>>
                /\ svcOp.before[1] = <<7, 0>>) =>
              /\ regs[0] = <<12, 0>>
              /\ \A i \in RegIndex \ {0} : regs[i] = svcOp.before[i]

\* Dispatch(0x01) with r0 = 5, r1 = 7 has run the add handler; r0 is 12 and
\* the other registers, with nonzero upper halves, are as before.
C6_Witness ==
    /\ svcOp.outcome = "handled"
    /\ svcOp.swi = 1
    /\ svcOp.before = RegFileScenario
    /\ regs[0] = <<12, 0>>
    /\ regs[15] = <<271, 4111>>

\* C7: the handler sees, for every register index 0..15, the guest register
\* zero-extended to 64 bits, and after the handler returns every guest
\* register is the handler's final slot modulo 2^32.
C7_ExactWidthConversion ==
    svcOp.outcome = "handled" =>
        /\ DOMAIN svcOp.seen = RegIndex
        /\ \A i \in RegIndex :
              /\ svcOp.seen[i][1] = svcOp.before[i][1]
              /\ svcOp.seen[i][2] = svcOp.before[i][2]
              /\ svcOp.seen[i][3] = 0
              /\ svcOp.seen[i][4] = 0
              /\ regs[i][1] = svcOp.result[i][1]
              /\ regs[i][2] = svcOp.result[i][2]
              /\ IsValue(regs[i], 4)

\* A handler that left bits above 2^32 in every slot has returned, from guest
\* registers with bit 31 set: 0xFFFFFFFF + 0x0000000100000001 is
\* 0x0000000200000000, and r0 reads 0.
C7_Witness ==
    /\ svcOp.outcome = "handled"
    /\ svcOp.handler = "All"
    /\ svcOp.before = RegFileHigh
    /\ svcOp.result[0] = <<0, 0, 2, 0>>
    /\ regs[0] = <<0, 0>>
    /\ \A i \in RegIndex : svcOp.result[i][3] # 0

\* ------------------------------------------------------------------------
\* Halt-Reason State Machine (jit32.cpp 39-45)
\* ------------------------------------------------------------------------

\* The enumerators of HaltReason.  A HaltReason value is a set of them: the
\* cast of the engine's return value can hold several at once.
Reasons == {"Svc", "Step", "Pause", "Fault"}

\* The bit of the engine's halt_reason word that stands for each enumerator.
NativeBit ==
    [r \in Reasons |->
        CASE r = "Step" -> 0 [] r = "Fault" -> 2 [] r = "Svc" -> 24 [] r = "Pause" -> 25]

\* ToDynarmicHaltReason(hr): the engine's bitmask of a HaltReason.
ToDynarmicHaltReason(hr) == {NativeBit[r] : r \in hr}

\* static_cast<HaltReason>(jit.Run()): the HaltReason of an engine bitmask.
FromDynarmicSingleReason(mask) ==
    IF mask = {} THEN {} ELSE {CHOOSE r \in Reasons : NativeBit[r] \in mask}
FromDynarmicHaltReason(mask) == {r \in Reasons : NativeBit[r] \in mask}

\* jit.HaltExecution(bits): an atomic OR into halt_reason.
JitHaltExecution(mask, bits) == mask \cup bits

\* jit.ClearHalt(bits): an atomic AND with the complement into halt_reason.
JitClearHalt(mask, bits) == mask \ bits

\* Jit32::HaltExecution(hr): the bitmask after the call.
HaltExecutionOverwrites(mask, hr) == ToDynarmicHaltReason(hr)
HaltExecutionMask(mask, hr) == JitHaltExecution(mask, ToDynarmicHaltReason(hr))

\* Jit32::ClearHalt(hr): the bitmask after the call.
ClearHaltEverything(mask, hr) == {}
ClearHaltToggles(mask, hr) ==
    (mask \ ToDynarmicHaltReason(hr)) \cup (ToDynarmicHaltReason(hr) \ mask)
ClearHaltMask(mask, hr) == JitClearHalt(mask, ToDynarmicHaltReason(hr))

\* The log keeps the latest four calls.
Logged(log, entry) ==
    IF Len(log) < 4 THEN Append(log, entry) ELSE Append(Tail(log), entry)

\* HaltExecution(hr) called by the owner between two calls of Run.
OwnerHaltExecution ==
    \E r \in Reasons :
        /\ haltOps < MaxHaltOps
        /\ haltMask' = HaltExecutionMask(haltMask, {r})
        /\ haltLog' = Logged(haltLog, [op |-> "halt", reason |-> r, pre |-> haltMask,
                                        at |-> "owner"])
        /\ haltOps' = haltOps + 1
        /\ UNCHANGED <<memVars, liveVars, ctxVars, svcVars, runVars>>

\* ClearHalt(hr) called by the owner between two calls of Run.
OwnerClearHalt ==
    \E r \in Reasons :
        /\ haltOps < MaxHaltOps
        /\ haltMask' = ClearHaltMask(haltMask, {r})
        /\ haltLog' = Logged(haltLog, [op |-> "clear", reason |-> r, pre |-> haltMask,
                                        at |-> "owner"])
        /\ haltOps' = haltOps + 1
        /\ UNCHANGED <<memVars, liveVars, ctxVars, svcVars, runVars>>

InitHalt ==
    /\ MemAtStart(InitialMemory(17))
    /\ LiveAtStart(ZeroContext)
    /\ CtxAtStart
    /\ SvcAtStart
    /\ HaltAtStart
    /\ RunAtStart

NextHalt ==
    \/ OwnerHaltExecution
    \/ OwnerClearHalt

SpecHalt == InitHalt /\ [][NextHalt]_vars

\* The calls n places from the end of the log (0 is the latest).
FromEnd(n) == haltLog[Len(haltLog) - n]

\* The latest two calls are HaltExecution(r); ClearHalt(r).
RequestThenClear ==
    /\ Len(haltLog) >= 2
    /\ FromEnd(1).op = "halt"
    /\ FromEnd(0).op = "clear"
    /\ FromEnd(0).reason = FromEnd(1).reason

\* The latest four calls are HaltExecution(r); ClearHalt(r) with
\* HaltExecution(r2) and ClearHalt(r2), r2 another reason, in between in
\* either order.
RequestThenClearAround ==
    /\ Len(haltLog) = 4
    /\ FromEnd(3).op = "halt"
    /\ FromEnd(0).op = "clear"
    /\ FromEnd(0).reason = FromEnd(3).reason
    /\ FromEnd(2).reason = FromEnd(1).reason
    /\ FromEnd(2).reason # FromEnd(3).reason
    /\ {FromEnd(2).op, FromEnd(1).op} = {"halt", "clear"}

\* C5 (as claimed): for every starting bitmask, HaltExecution(r) followed by
\* ClearHalt(r) returns the bitmask to exactly its value before the request,
\* also with HaltExecution(r2) and ClearHalt(r2) of an unrelated reason in
\* between in any order.
C5_RequestClearRestoresAlways ==
    /\ RequestThenClear => haltMask = FromEnd(1).pre
    /\ RequestThenClearAround => haltMask = FromEnd(3).pre

\* C5 (amended): for every starting bitmask in which r is not already
\* pending, HaltExecution(r) followed by ClearHalt(r) returns the bitmask to
\* exactly its value before the request; with HaltExecution(r2) and
\* ClearHalt(r2) of an unrelated reason in between, in either order, every bit
\* but r2's is as before the request and r2's bit is set exactly if
\* HaltExecution(r2) was the later of the two.
C5_RequestClearRestores ==
    /\ (RequestThenClear /\ NativeBit[FromEnd(1).reason] \notin FromEnd(1).pre) =>
          haltMask = FromEnd(1).pre
    /\ (RequestThenClearAround /\ NativeBit[FromEnd(3).reason] \notin FromEnd(3).pre) =>
          LET bit2 == NativeBit[FromEnd(1).reason]
          IN  /\ haltMask \ {bit2} = FromEnd(3).pre \ {bit2}
              /\ (bit2 \in haltMask) <=> (FromEnd(1).op = "halt")
              /\ (bit2 \in FromEnd(3).pre <=> FromEnd(1).op = "halt") =>
                    haltMask = FromEnd(3).pre

\* HaltExecution(Pause); HaltExecution(Step); ClearHalt(Step); ClearHalt(Pause)
\* from a bitmask in which Svc was pending has returned to that bitmask.
C5_Witness ==
    /\ RequestThenClearAround
    /\ FromEnd(3).reason = "Pause"
    /\ FromEnd(2) = [op |-> "halt", reason |-> "Step", pre |-> {24, 25}, at |-> "owner"]
    /\ FromEnd(3).pre = {24}
    /\ haltMask = {24}

\* The bit positions of the engine's 32-bit halt_reason word.
HaltBits == 0..31

\* C14: ClearHalt(r) removes exactly the bit of r from the halt bitmask: for
\* every starting bitmask every bit not belonging to r has the same value
\* after ClearHalt(r) as before and the bit of r is zero afterwards;
\* HaltExecution(r) sets the bit of r and changes no other bit.
C14_ExactlyTheBitsOfTheReason ==
    haltLog # <<>> =>
        LET call == FromEnd(0)
            bit == NativeBit[call.reason]
        IN  /\ \A b \in HaltBits \ {bit} : (b \in haltMask) <=> (b \in call.pre)
            /\ call.op = "clear" => bit \notin haltMask
            /\ call.op = "halt" => bit \in haltMask
            /\ haltMask \subseteq HaltBits

\* ClearHalt(Step) with Step, Svc and Pause pending has left Svc and Pause
\* pending.
C14_Witness ==
    /\ haltLog # <<>>
    /\ FromEnd(0) = [op |-> "clear", reason |-> "Step", pre |-> {0, 24, 25},
                     at |-> "owner"]
    /\ haltMask = {24, 25}

\* ------------------------------------------------------------------------
\* Execution Driver (jit32.cpp 23-37, 197-200) and the engine it drives
\* ------------------------------------------------------------------------

\* HaltReason::Svc
HaltReasonSvc == {"Svc"}

\* Syscall numbers of the SVC instructions the guest code executes: two
\* populated entries and an unpopulated one.
GuestSwis == {1, 3, 4}

\* Jit32::Run() is called: the owner's thread enters jit.Run().
RunCall ==
    /\ runPc = "idle"
    /\ fatal.kind = "none"
    /\ runs < MaxRuns
    /\ runPc' = "engine"
    /\ runs' = runs + 1
    /\ runSvc' = <<>>
    /\ svcSince' = svcSince
    /\ runDispatch' = <<>>
    /\ haltLog' = <<>>
    /\ UNCHANGED <<haltMask, haltOps, haltReason, lastSwi, memVars, liveVars,
                   ctxVars, svcVars>>

\* The engine tests halt_reason between two blocks of guest code and starts
\* the next block when no bit is set.
EngineEnterBlock ==
    /\ runPc = "engine"
    /\ haltMask = {}
    /\ runPc' = "block"
    /\ UNCHANGED <<haltReason, lastSwi, runs, runSvc, runDispatch, svcSince, haltVars,
                   memVars, liveVars, ctxVars, svcVars>>

\* The block ends without a supervisor call.
EngineLeaveBlock ==
    /\ runPc = "block"
    /\ runPc' = "engine"
    /\ UNCHANGED <<haltReason, lastSwi, runs, runSvc, runDispatch, svcSince, haltVars,
                   memVars, liveVars, ctxVars, svcVars>>

\* Jit32::CallSVC(swi): the block executes an SVC instruction, which ends it.
CallSVCWith(swi) ==
    /\ runPc = "block"
    /\ lastSwi' = swi
    /\ haltMask' = HaltExecutionMask(haltMask, HaltReasonSvc)
    /\ runSvc' = Append(runSvc, swi)
    /\ svcSince' = svcSince \cup {swi}
    /\ runPc' = "engine"
    /\ UNCHANGED <<haltReason, runs, runDispatch, haltLog, haltOps, memVars,
                   liveVars, ctxVars, svcVars>>

CallSVC == \E swi \in GuestSwis : CallSVCWith(swi)

\* jit.Run() returns: the engine finds halt_reason set and reports it, without
\* clearing it.  auto haltReason{static_cast<HaltReason>(jit.Run())};
EngineReturn ==
    /\ runPc = "engine"
    /\ haltMask # {}
    /\ haltReason' = FromDynarmicHaltReason(haltMask)
    /\ runPc' = "returned"
    /\ UNCHANGED <<lastSwi, runs, runSvc, runDispatch, svcSince, haltVars, memVars,
                   liveVars, ctxVars, svcVars>>

\* ClearHalt(haltReason);
RunClearHalt ==
    /\ runPc = "returned"
    /\ haltMask' = ClearHaltMask(haltMask, haltReason)
    /\ runPc' = "switch"
    /\ UNCHANGED <<haltReason, lastSwi, runs, runSvc, runDispatch, svcSince, haltLog,
                   haltOps, memVars, liveVars, ctxVars, svcVars>>

\* switch (haltReason): case HaltReason::Svc calls SvcHandler(lastSwi), any
\* other value is logged; Run returns, or leaves by SvcHandler's exception.
TakesSvcCaseAlways(hr) == TRUE
TakesSvcCase(hr) == hr = HaltReasonSvc

RunSwitch ==
    /\ runPc = "switch"
    /\ IF TakesSvcCase(haltReason)
       THEN /\ SvcHandler(lastSwi)
            /\ runDispatch' = Append(runDispatch, lastSwi)
            /\ svcSince' = {}
       ELSE UNCHANGED <<regs, svcVars, runDispatch, svcSince>>
    /\ runPc' = "idle"
    /\ UNCHANGED <<haltReason, lastSwi, runs, runSvc, haltVars, extRegs, cpsr, fpscr,
                   memVars, ctxVars>>

\* HaltExecution(hr) called by another execution context, at any point of the
\* owner's Run cycle.
HaltExecution ==
    \E r \in Reasons :
        /\ Len(haltLog) < MaxHalts
        /\ haltMask' = HaltExecutionMask(haltMask, {r})
        /\ haltLog' = Append(haltLog, [op |-> "halt", reason |-> r, pre |-> haltMask,
                                        at |-> runPc])
        /\ UNCHANGED <<haltOps, runVars, memVars, liveVars, ctxVars, svcVars>>

Init ==
    /\ MemAtStart(InitialMemory(17))
    /\ LiveAtStart([Snapshot(1) EXCEPT !.gpr = RegFileScenario])
    /\ CtxAtStart
    /\ SvcAtStart
    /\ HaltAtStart
    /\ RunAtStart

Next ==
    \/ RunCall
    \/ EngineEnterBlock
    \/ EngineLeaveBlock
    \/ CallSVC
    \/ EngineReturn
    \/ RunClearHalt
    \/ RunSwitch
    \/ HaltExecution

Spec == Init /\ [][Next]_vars

\* C2 (as claimed): no syscall is lost.  Whenever the engine calls
\* CallSVC(swi) during a Run, that Run hands exactly swi to SvcHandler after
\* the engine returns, in every interleaving with the halt requests of other
\* contexts.
C2_NoSyscallLost ==
    (runPc = "idle" /\ runSvc # <<>>) => runDispatch = runSvc

\* The bits of the reason the engine returned to the current Run.
ReturnedBits == ToDynarmicHaltReason(haltReason)

\* Run's ClearHalt of the returned reason has happened in this cycle, and one
\* other context has requested a halt since Run was called.
ClearedWithOneRequest ==
    /\ runs > 0
    /\ runPc \in {"switch", "idle"}
    /\ Len(haltLog) = 1

\* The bitmask the claim expects: the bits pending before the request, with
\* the returned reason r1 removed and the requested reason r2 added.
ExpectedAfterRequest ==
    (haltLog[1].pre \ ReturnedBits) \cup {NativeBit[haltLog[1].reason]}

\* C4 (as claimed): in every interleaving of another context's
\* HaltExecution(r2) with the engine's return of r1 and Run's ClearHalt(r1),
\* r2 differing from r1, the bitmask ends as the pending bits with r1 removed
\* and r2 added.
C4_RequestSurvivesAnyInterleaving ==
    (ClearedWithOneRequest /\ {NativeBit[haltLog[1].reason]} # ReturnedBits) =>
        haltMask = ExpectedAfterRequest

\* C4 (amended): the same for an r2 that has no bit in common with the r1 the
\* engine returned; a request that lands before the engine returns is part of
\* r1 and is cleared with it.
C4_RequestSurvivesClear ==
    /\ (ClearedWithOneRequest /\ NativeBit[haltLog[1].reason] \notin ReturnedBits) =>
          haltMask = ExpectedAfterRequest
    /\ (ClearedWithOneRequest /\ haltLog[1].at \in {"engine", "block"}) =>
          /\ NativeBit[haltLog[1].reason] \in ReturnedBits
          /\ NativeBit[haltLog[1].reason] \notin haltMask

\* HaltExecution(Pause) landed between the engine's return of Svc and Run's
\* ClearHalt(Svc): Svc is cleared and Pause is still pending.
C4_Witness ==
    /\ ClearedWithOneRequest
    /\ haltLog[1] = [op |-> "halt", reason |-> "Pause", pre |-> {24}, at |-> "returned"]
    /\ haltReason = {"Svc"}
    /\ haltMask = {25}

\* C15: Run clears exactly what the engine reported.  The HaltReason obtained
\* from the engine's return value converts back to the bitmask the engine
\* returned, for single reasons and combinations; Run's ClearHalt clears every
\* bit the engine returned and no other bit; and with no request of another
\* context since Run was called the bitmask is empty when Run returns.
C15_ClearsExactlyWhatWasReported ==
    /\ [][(runPc = "engine" /\ runPc' = "returned") =>
            ToDynarmicHaltReason(haltReason') = haltMask]_vars
    /\ [][(runPc = "returned" /\ runPc' = "switch") =>
            \A b \in HaltBits :
                IF b \in ToDynarmicHaltReason(haltReason)
                THEN b \notin haltMask'
                ELSE (b \in haltMask') <=> (b \in haltMask)]_vars
    /\ []((runPc = "idle" /\ runs > 0 /\ haltLog = <<>>) => haltMask = {})

\* The engine returned Svc|Pause, Step was requested before Run's ClearHalt,
\* and the ClearHalt has cleared Svc and Pause and left Step pending.
C15_Witness ==
    /\ runPc = "switch"
    /\ haltReason = {"Svc", "Pause"}
    /\ Len(haltLog) = 2
    /\ haltLog[2] = [op |-> "halt", reason |-> "Step", pre |-> {24, 25},
                     at |-> "returned"]
    /\ haltMask = {0}

\* The engine has returned to Run a value other than HaltReason::Svc, and Run
\* has not returned yet.
HandlingOtherReason ==
    /\ runPc \in {"returned", "switch"}
    /\ haltReason # HaltReasonSvc

\* C12: when the engine returns any halt reason other than syscall-requested
\* (step, pause, fault, alone or combined), Run only clears that reason and
\* returns: from the engine's return to Run's return no syscall handler is
\* invoked and the guest registers, the guest memory and the captured syscall
\* number stay as they are, the only step that follows the return clears the
\* returned bits, and afterwards Run can be called again.
C12_OtherReasonOnlyClears ==
    /\ [][HandlingOtherReason =>
            /\ regs' = regs
            /\ extRegs' = extRegs
            /\ mem' = mem
            /\ lastSwi' = lastSwi
            /\ svcOp' = svcOp
            /\ dispatches' = dispatches
            /\ fatal' = fatal
            /\ runDispatch' = runDispatch
            /\ (runPc = "returned" /\ runPc' # runPc) =>
                  /\ runPc' = "switch"
                  /\ haltMask' = haltMask \ ToDynarmicHaltReason(haltReason)
            /\ (runPc = "switch" /\ runPc' # runPc) =>
                  /\ runPc' = "idle"
                  /\ haltMask' = haltMask]_vars
    /\ [](runPc = "idle" /\ runs \in 1..(MaxRuns - 1) /\ haltReason # HaltReasonSvc
            => ENABLED RunCall)

\* A Run whose engine returned Step|Fault has returned and Run was called
\* again: no syscall was dispatched and the registers and the captured
\* syscall number are the initial ones.
C12_Witness ==
    /\ runs = 2
    /\ runPc = "block"
    /\ haltReason = {"Step", "Fault"}
    /\ dispatches = 0
    /\ regs = RegFileScenario
    /\ lastSwi = 0
    /\ haltMask = {}

\* C18 (as claimed): no syscall is dispatched twice or without being
\* requested.  Over any sequence of Run calls, CallSVC notifications and
\* HaltExecution requests, every call of SvcHandler by Run is for a number that
\* a CallSVC passed since Run's previous dispatch; a Svc halt that did not come
\* from CallSVC never dispatches a stale lastSwi.
C18_EveryDispatchWasRequested ==
    [][dispatches' # dispatches => svcOp'.swi \in svcSince]_vars

\* The owner's thread and the engine it runs keep making progress: the owner
\* calls Run again after every return, Run's statements execute, a block of
\* guest code ends, and the engine tests halt_reason between blocks.  The
\* requests of other contexts come whenever they come.
SpecLive ==
    /\ Init
    /\ [][Next]_vars
    /\ WF_vars(RunCall)
    /\ WF_vars(EngineEnterBlock)
    /\ WF_vars(EngineLeaveBlock \/ CallSVC)
    /\ WF_vars(EngineReturn)
    /\ WF_vars(RunClearHalt)
    /\ WF_vars(RunSwitch)

\* During the n-th Run cycle another context has called HaltExecution(r) at
\* one of the given points of the cycle.
RequestedAt(n, r, points) ==
    /\ runs = n
    /\ \E k \in DOMAIN haltLog : haltLog[k].reason = r /\ haltLog[k].at \in points

\* The engine run of a Run cycle whose number is in cycles has ended and has
\* returned a reason containing r.
ReturnedWith(cycles, r) ==
    /\ runs \in cycles
    /\ runPc \in {"returned", "switch", "idle"}
    /\ r \in haltReason

ProcessKilled == [kind |-> "Killed", swi |-> 0]

\* Jit32::SetThreadPointer(threadPtr), called by the owner: an empty body.
SetThreadPointer ==
    \E threadPtr \in PointerValues :
        /\ runPc = "idle"
        /\ fatal.kind = "none"
        /\ lastCall' = "SetThreadPointer"
        /\ UNCHANGED <<svcOp, fatal, dispatches, memVars, liveVars, ctxVars, haltVars,
                       runVars>>

\* Jit32::SetTlsPointer(tlsPtr), called by the owner: an empty body.
SetTlsPointer ==
    \E tlsPtr \in PointerValues :
        /\ runPc = "idle"
        /\ fatal.kind = "none"
        /\ lastCall' = "SetTlsPointer"
        /\ UNCHANGED <<svcOp, fatal, dispatches, memVars, liveVars, ctxVars, haltVars,
                       runVars>>

\* Jit32::ExceptionRaised(pc, exception), called by the engine inside a
\* block: an empty body.
ExceptionRaised ==
    /\ runPc = "block"
    /\ lastCall' = "ExceptionRaised"
    /\ UNCHANGED <<svcOp, fatal, dispatches, memVars, liveVars, ctxVars, haltVars,
                   runVars>>

\* Jit32::InterpreterFallback(pc, numInstructions), called by the engine
\* inside a block: state.process->Kill(false, true).
InterpreterFallback ==
    /\ runPc = "block"
    /\ fatal' = ProcessKilled
    /\ lastCall' = "InterpreterFallback"
    /\ runPc' = "killed"
    /\ UNCHANGED <<svcOp, dispatches, haltReason, lastSwi, runs, runSvc, runDispatch,
                   svcSince,
                   memVars, liveVars, ctxVars, haltVars>>

\* Syscall numbers past the table that an SVC instruction can carry: the
\* first one and the largest 24-bit immediate.
GuestSwisPastTable == {SvcTableSize, 16777215}

\* Jit32::CallSVC(swi) for an SVC instruction with such a number.
CallSVCPastTable == \E swi \in GuestSwisPastTable : CallSVCWith(swi)

NextFatal ==
    \/ RunCall
    \/ EngineEnterBlock
    \/ EngineLeaveBlock
    \/ CallSVC
    \/ CallSVCPastTable
    \/ EngineReturn
    \/ RunClearHalt
    \/ RunSwitch
    \/ HaltExecution
    \/ SetThreadPointer
    \/ SetTlsPointer
    \/ ExceptionRaised
    \/ InterpreterFallback

SpecFatal == Init /\ [][NextFatal]_vars

\* The fatal condition is the unimplemented-syscall one, raised by the latest
\* dispatch for a number that has no populated entry.
FatalByUnimplementedSvc ==
    /\ fatal.kind = "UnimplementedSvc"
    /\ svcOp.outcome = "unimplemented"
    /\ svcOp.swi \notin Populated
    /\ fatal.swi = svcOp.swi

\* The fatal condition is the kill of the process by InterpreterFallback.
FatalByInterpreterFallback ==
    /\ fatal = ProcessKilled
    /\ lastCall = "InterpreterFallback"
    /\ runPc = "killed"

\* C11 (as claimed): process-fatal escalation happens exactly in two cases.
\* A dispatch of a syscall number with no populated entry ends in the
\* unimplemented-syscall fatal condition, an InterpreterFallback notification
\* kills the process, and the core is in the fatal state for no other reason:
\* not after a non-Svc halt reason returned to Run, ExceptionRaised,
\* SetThreadPointer, SetTlsPointer or a dispatched syscall.
C11_FatalExactlyInTwoCases ==
    /\ (svcOp.outcome # "none" /\ svcOp.swi \notin Populated) =>
          fatal.kind = "UnimplementedSvc"
    /\ lastCall = "InterpreterFallback" => fatal = ProcessKilled
    /\ fatal.kind # "none" => (FatalByUnimplementedSvc \/ FatalByInterpreterFallback)
    /\ (lastCall \in {"ExceptionRaised", "SetThreadPointer", "SetTlsPointer"}
            /\ svcOp.outcome \in {"none", "handled"}) => fatal.kind = "none"

\* ------------------------------------------------------------------------
\* Guest Memory Accessor (jit32.cpp 122-190)
\* ------------------------------------------------------------------------

\* constexpr u32 bits = std::bit_width(sizeof(T)) - 1;
Bits(sz) == BitWidth(sz) - 1

\* constexpr u32 mask{(1 << bits) - 1};
Mask(sz) == ShiftLeft(1, Bits(sz)) - 1

\* (vaddr & mask) == 0
IsAligned(vaddr, sz) == BitAnd(vaddr, Mask(sz)) = 0

\* memory.base.cast<T>()[index]: element index of the window seen as an array
\* of T occupies the bytes index * sizeof(T) .. index * sizeof(T) + sizeof(T) - 1.
ElementOffset(index, sz) == index * sz

CastLoad(m, sz, index) ==
    FromBytes([k \in 1..sz |-> m[ElementOffset(index, sz) + (k - 1)]], sz)

CastStore(m, sz, index, value) ==
    [o \in DOMAIN m |->
        IF o >= ElementOffset(index, sz) /\ o < ElementOffset(index, sz) + sz
        THEN ToBytes(value, sz)[o - ElementOffset(index, sz) + 1]
        ELSE m[o]]

\* ReadUnaligned<T>(ptr): memcpy of sizeof(T) bytes from ptr.
ReadUnaligned(m, sz, ptr) == FromBytes([k \in 1..sz |-> m[ptr + (k - 1)]], sz)

\* WriteUnaligned<T>(ptr, value): memcpy of sizeof(T) bytes to ptr.
WriteUnalignedOverrun(m, sz, ptr, value) ==
    [o \in DOMAIN m |->
        IF o >= ptr /\ o < ptr + sz THEN ToBytes(value, sz)[o - ptr + 1]
        ELSE IF o = ptr + sz THEN 0 ELSE m[o]]
WriteUnaligned(m, sz, ptr, value) ==
    [o \in DOMAIN m |->
        IF o >= ptr /\ o < ptr + sz THEN ToBytes(value, sz)[o - ptr + 1] ELSE m[o]]

\* Jit32::MemoryRead<T>(vaddr)
MemoryReadNoFallback(m, sz, vaddr) == CastLoad(m, sz, ShiftRight(vaddr, Bits(sz)))
MemoryRead(m, sz, vaddr) ==
    IF IsAligned(vaddr, sz)
    THEN CastLoad(m, sz, ShiftRight(vaddr, Bits(sz)))
    ELSE ReadUnaligned(m, sz, vaddr)

\* Jit32::MemoryWrite<T>(vaddr, value): the memory after the write.
MemoryWriteNoFallback(m, sz, vaddr, value) ==
    CastStore(m, sz, ShiftRight(vaddr, Bits(sz)), value)
MemoryWrite(m, sz, vaddr, value) ==
    IF IsAligned(vaddr, sz)
    THEN CastStore(m, sz, ShiftRight(vaddr, Bits(sz)), value)
    ELSE WriteUnaligned(m, sz, vaddr, value)

\* The values the accesses of the model write, per width.
WriteValues(sz) ==
    CASE sz = 1 -> {<<239>>}
      [] sz = 2 -> {<<43981>>, <<4660>>}
      [] sz = 4 -> {<<48879, 57005>>, <<1, 65535>>}
      [] sz = 8 -> {<<52719, 35243, 17767, 291>>}

\* The path an access of sz bytes at vaddr takes.
PathOf(vaddr, sz) == IF IsAligned(vaddr, sz) THEN "aligned" ELSE "unaligned"

\* MemoryRead8/16/32/64(vaddr), called by the engine for a guest load.
DoMemoryRead(sz, vaddr) ==
    /\ InWindow(vaddr, sz)
    /\ memOp' = [op |-> "read", sz |-> sz, vaddr |-> vaddr,
                 value |-> MemoryRead(mem, sz, vaddr),
                 path |-> PathOf(vaddr, sz),
                 after |-> IF memOp.op = "write"
                           THEN <<memOp.sz, memOp.vaddr, memOp.value>>
                           ELSE <<>>]
    /\ UNCHANGED <<mem, writes, liveVars, ctxVars, svcVars, haltVars, runVars>>

\* MemoryWrite8/16/32/64(vaddr, value), called by the engine for a guest store.
DoMemoryWrite(sz, vaddr, value) ==
    /\ InWindow(vaddr, sz)
    /\ writes < MaxWrites
    /\ mem' = MemoryWrite(mem, sz, vaddr, value)
    /\ memOp' = [op |-> "write", sz |-> sz, vaddr |-> vaddr, value |-> value,
                 path |-> PathOf(vaddr, sz), after |-> <<>>]
    /\ writes' = writes + 1
    /\ UNCHANGED <<liveVars, ctxVars, svcVars, haltVars, runVars>>

MemoryRead8 == \E a \in Window : DoMemoryRead(1, a)
MemoryRead16 == \E a \in Window : DoMemoryRead(2, a)
MemoryRead32 == \E a \in Window : DoMemoryRead(4, a)
MemoryRead64 == \E a \in Window : DoMemoryRead(8, a)
MemoryWrite8 == \E a \in Window, v \in WriteValues(1) : DoMemoryWrite(1, a, v)
MemoryWrite16 == \E a \in Window, v \in WriteValues(2) : DoMemoryWrite(2, a, v)
MemoryWrite32 == \E a \in Window, v \in WriteValues(4) : DoMemoryWrite(4, a, v)
MemoryWrite64 == \E a \in Window, v \in WriteValues(8) : DoMemoryWrite(8, a, v)

InitMem ==
    /\ MemAtStart(InitialMemory(17))
    /\ LiveAtStart(ZeroContext)
    /\ CtxAtStart
    /\ SvcAtStart
    /\ HaltAtStart
    /\ RunAtStart

NextMem ==
    \/ MemoryRead8
    \/ MemoryRead16
    \/ MemoryRead32
    \/ MemoryRead64
    \/ MemoryWrite8
    \/ MemoryWrite16
    \/ MemoryWrite32
    \/ MemoryWrite64

SpecMem == InitMem /\ [][NextMem]_vars

\* ------------------------------------------------------------------------
\* Properties of the Guest Memory Accessor
\* ------------------------------------------------------------------------

\* The last access was a read that immediately followed a write of the same
\* width at the same address.
ReadBackOfWrite ==
    /\ memOp.op = "read"
    /\ memOp.after # <<>>
    /\ memOp.after[1] = memOp.sz
    /\ memOp.after[2] = memOp.vaddr

\* C1: for every width and every in-window address, aligned or not,
\* MemoryWrite_W(a, v) immediately followed by MemoryRead_W(a) returns v.
C1_WriteReadRoundTrip ==
    /\ ReadBackOfWrite => memOp.value = memOp.after[3]
    /\ memOp.op = "write" => MemoryRead(mem, memOp.sz, memOp.vaddr) = memOp.value

\* Write16(0x1001, 0xABCD), on the unaligned path, then Read16(0x1001) has
\* returned 0xABCD.
C1_Witness ==
    /\ ReadBackOfWrite
    /\ memOp.sz = 2
    /\ memOp.vaddr = 4097
    /\ memOp.path = "unaligned"
    /\ memOp.after[3] = <<43981>>
    /\ memOp.value = <<43981>>

\* C8: for every width of sz bytes and every in-window address a,
\* MemoryRead_W(a) is the byte-wise little-endian read of the sz bytes at
\* offsets a .. a+sz-1, on the aligned and on the unaligned path alike, and
\* the aligned path is taken exactly when a is a multiple of sz
\* (a & (sz-1) == 0).
C8_ReadMatchesBytewiseReference ==
    memOp.op = "read" =>
        /\ \A k \in 0..(memOp.sz - 1) :
              ByteOf(memOp.value, k) = mem[memOp.vaddr + k]
        /\ IsValue(memOp.value, memOp.sz)
        /\ (memOp.path = "aligned") <=> (memOp.vaddr % memOp.sz = 0)

\* A 64-bit read on the unaligned path has returned the eight bytes that start
\* at its address, and the bytes are not all the same.
C8_Witness ==
    /\ memOp.op = "read"
    /\ memOp.sz = 8
    /\ memOp.path = "unaligned"
    /\ memOp.vaddr % 8 = 1
    /\ \A k \in 0..7 : ByteOf(memOp.value, k) = mem[memOp.vaddr + k]
    /\ ByteOf(memOp.value, 0) # ByteOf(memOp.value, 7)

\* The last access was a read of a narrower width that immediately followed
\* a write and lies inside the bytes that write covered.
NarrowReadOfWrite ==
    /\ memOp.op = "read"
    /\ memOp.after # <<>>
    /\ memOp.sz < memOp.after[1]
    /\ memOp.vaddr >= memOp.after[2]
    /\ memOp.vaddr + memOp.sz <= memOp.after[2] + memOp.after[1]

\* C10: accesses of different widths see one little-endian byte layout.
\* After MemoryWrite_W(a, v), a read of a narrower width at a+j returns the
\* bytes j .. of v, least significant first; after a 32-bit write the four
\* MemoryRead8(a+i) reassemble to v.
C10_LittleEndianAcrossWidths ==
    /\ NarrowReadOfWrite =>
          \A k \in 0..(memOp.sz - 1) :
              ByteOf(memOp.value, k)
                  = ByteOf(memOp.after[3], memOp.vaddr - memOp.after[2] + k)
    /\ memOp.op = "write" =>
          \A sz \in {n \in Sizes : n < memOp.sz} :
              \A j \in 0..(memOp.sz - sz) :
                  \A k \in 0..(sz - 1) :
                      ByteOf(MemoryRead(mem, sz, memOp.vaddr + j), k)
                          = ByteOf(memOp.value, j + k)
    /\ (memOp.op = "write" /\ memOp.sz = 4) =>
          LET b == [i \in 0..3 |-> MemoryRead(mem, 1, memOp.vaddr + i)[1]]
          IN  <<b[0] + ByteRadix * b[1], b[2] + ByteRadix * b[3]>> = memOp.value

\* Write32(0x1000, 0xDEADBEEF), then Read8(0x1003) has returned 0xDE.
C10_Witness ==
    /\ NarrowReadOfWrite
    /\ memOp.after = <<4, 4096, <<48879, 57005>>>>
    /\ memOp.sz = 1
    /\ memOp.vaddr = 4099
    /\ memOp.value = <<222>>

\* C17: MemoryWrite_W(a, v) of width sz bytes modifies only the window bytes
\* at offsets a .. a+sz-1, on the aligned and on the unaligned path; every
\* other byte of the window and all register state are unchanged, and
\* MemoryRead_W modifies nothing.
C17_WriteTouchesOnlyItsBytes ==
    [][/\ writes' # writes =>
            /\ memOp'.op = "write"
            /\ DOMAIN mem' = DOMAIN mem
            /\ \A o \in Window :
                  (o < memOp'.vaddr \/ o >= memOp'.vaddr + memOp'.sz) => mem'[o] = mem[o]
            /\ Live' = Live
       /\ writes' = writes =>
            /\ memOp'.op = "read"
            /\ mem' = mem
            /\ Live' = Live]_vars

\* Write32(0x1001, 0xDEADBEEF), on the unaligned path, has changed the four
\* bytes from 0x1001 on; the byte before them and the bytes after them are the
\* initial ones.
C17_Witness ==
    /\ memOp.op = "write"
    /\ memOp.sz = 4
    /\ memOp.vaddr = 4097
    /\ memOp.path = "unaligned"
    /\ mem[4097] = 239
    /\ mem[4100] = 222
    /\ mem[4096] = InitialMemory(17)[4096]
    /\ \A o \in 4101..4104 : mem[o] = InitialMemory(17)[o]

====
